---- MODULE Spec2Model ----
(***************************************************************************)
(* Canvas assignment processor (src/main.ts): synchronisation of remote   *)
(* assignments into vault notes.  Strings are sequences of one-character  *)
(* strings, so that the regular expressions of the source can be applied  *)
(* character by character.                                                 *)
(***************************************************************************)
EXTENDS Integers, Sequences, FiniteSets, TLC

(***************************************************************************)
(* Characters and elementary string operations (JavaScript built-ins).     *)
(***************************************************************************)
UpperSeq == <<"A","B","C","D","E","F","G","H","I","J","K","L","M",
              "N","O","P","Q","R","S","T","U","V","W","X","Y","Z">>
LowerSeq == <<"a","b","c","d","e","f","g","h","i","j","k","l","m",
              "n","o","p","q","r","s","t","u","v","w","x","y","z">>
Upper == {UpperSeq[i] : i \in DOMAIN UpperSeq}
Digit == {"0","1","2","3","4","5","6","7","8","9"}
Space == {" "}
\* the character class [\*"\\/<>:|?] of cleanAssignmentName
IllegalChars == {"*", "\"", "\\", "/", "<", ">", ":", "|", "?"}

\* String.prototype.toLowerCase, one character
ToLowerChar(c) ==
    IF c \in Upper
    THEN LowerSeq[CHOOSE i \in DOMAIN UpperSeq : UpperSeq[i] = c]
    ELSE c

\* String.prototype.toLowerCase
ToLower(s) == [i \in 1..Len(s) |-> ToLowerChar(s[i])]

\* the substring of s that starts at position i and has length n
Slice(s, i, n) == SubSeq(s, i, i + n - 1)

\* String.prototype.startsWith
StartsWith(s, p) == Len(p) <= Len(s) /\ SubSeq(s, 1, Len(p)) = p

\* String.prototype.includes
Includes(s, sub) ==
    \E i \in 1..(Len(s) - Len(sub) + 1) : Slice(s, i, Len(sub)) = sub

\* String.prototype.trim
RECURSIVE TrimLeft(_)
TrimLeft(s) ==
    IF s # <<>> /\ Head(s) \in Space THEN TrimLeft(Tail(s)) ELSE s

RECURSIVE TrimRight(_)
TrimRight(s) ==
    IF s # <<>> /\ s[Len(s)] \in Space
    THEN TrimRight(SubSeq(s, 1, Len(s) - 1))
    ELSE s

Trim(s) == TrimRight(TrimLeft(s))

\* the suffix of s from position i on
From(s, i) == SubSeq(s, i, Len(s))

(***************************************************************************)
(* cleanAssignmentName: the four replacements, in the order of the source. *)
(***************************************************************************)
\* faulty variant: without the g flag, the first bracketed tag only
StripFirstBracket(s) ==
    LET opens == {i \in 1..Len(s) :
                    s[i] = "[" /\ \E j \in (i+1)..Len(s) : s[j] = "]"}
    IN  IF opens = {} THEN s
        ELSE LET i == CHOOSE x \in opens : \A y \in opens : x <= y
                 j == CHOOSE x \in (i+1)..Len(s) :
                        s[x] = "]" /\ \A y \in (i+1)..(x-1) : s[y] # "]"
             IN  SubSeq(s, 1, i - 1) \o SubSeq(s, j + 1, Len(s))

\* name.replace(/\[.*?\]/g, ''): leftmost "[" that has a "]" after it, up to
\* the first such "]" (lazy), removed; the scan goes on after the match
RECURSIVE StripBrackets(_)
StripBrackets(s) ==
    LET opens == {i \in 1..Len(s) :
                    s[i] = "[" /\ \E j \in (i+1)..Len(s) : s[j] = "]"}
    IN  IF opens = {} THEN s
        ELSE LET i == CHOOSE x \in opens : \A y \in opens : x <= y
                 j == CHOOSE x \in (i+1)..Len(s) :
                        s[x] = "]" /\ \A y \in (i+1)..(x-1) : s[y] # "]"
             IN  SubSeq(s, 1, i - 1) \o StripBrackets(From(s, j + 1))

\* s has a match of -[A-Z]{3}[0-9]{3}- at position i
CourseTokenAt(s, i) ==
    /\ i + 7 <= Len(s)
    /\ s[i] = "-" /\ s[i+7] = "-"
    /\ \A k \in 1..3 : s[i+k] \in Upper
    /\ \A k \in 4..6 : s[i+k] \in Digit

\* name.replace(/-[A-Z]{3}[0-9]{3}-/g, '')
RECURSIVE StripCourseTokens(_)
StripCourseTokens(s) ==
    LET hits == {i \in 1..Len(s) : CourseTokenAt(s, i)}
    IN  IF hits = {} THEN s
        ELSE LET i == CHOOSE x \in hits : \A y \in hits : x <= y
             IN  SubSeq(s, 1, i - 1) \o StripCourseTokens(From(s, i + 8))

\* s has a match of \d{4}-\d{2}-\d{2} at position i
DateAt(s, i) ==
    /\ i + 9 <= Len(s)
    /\ \A k \in {0,1,2,3,5,6,8,9} : s[i+k] \in Digit
    /\ s[i+4] = "-" /\ s[i+7] = "-"

\* name.replace(/\d{4}-\d{2}-\d{2}/, ''): no g flag, the first match only
StripOneDate(s) ==
    LET hits == {i \in 1..Len(s) : DateAt(s, i)}
    IN  IF hits = {} THEN s
        ELSE LET i == CHOOSE x \in hits : \A y \in hits : x <= y
             IN  SubSeq(s, 1, i - 1) \o From(s, i + 10)

\* name.replace(/[\*"\\/<>:|?]/g, '')
StripIllegal(s) == SelectSeq(s, LAMBDA c : c \notin IllegalChars)

\* .replace(/\s+/g, ' ')
RECURSIVE CollapseSpaces(_)
CollapseSpaces(s) ==
    IF s = <<>> THEN <<>>
    ELSE IF Head(s) \in Space
         THEN <<" ">> \o CollapseSpaces(TrimLeft(s))
         ELSE <<Head(s)>> \o CollapseSpaces(Tail(s))

cleanAssignmentName(name) ==
    Trim(CollapseSpaces(StripIllegal(
        StripOneDate(StripCourseTokens(StripBrackets(name))))))

(***************************************************************************)
(* Settings (DEFAULT_SETTINGS) and the string literals of the source.      *)
(***************************************************************************)
semester == <<"S","p","r","i","n","g">>
year == <<"2","0","2","5">>
\* `${this.settings.semester} ${this.settings.year}`
semesterDir == semester \o <<" ">> \o year
AssignmentsSuffix == <<"/","A","s","s","i","g","n","m","e","n","t","s">>
TitleTag == <<" ","[","A","s","s","i","g","n","m","e","n","t","]"," ","[","-">>
MdExt == <<".","m","d">>

(***************************************************************************)
(* isCurrentSemesterCourse                                                  *)
(***************************************************************************)
isCurrentSemesterCourse(course) ==
    LET courseName == ToLower(course.name)
        courseCode == ToLower(course.course_code)
        termName == ToLower(course.term)
        sem == ToLower(semester)
    IN  \/ Includes(courseName, sem \o <<" ">> \o year)
        \/ Includes(courseCode, year \o sem)
        \/ Includes(courseCode, year \o sem \o <<"c">>)
        \/ (Includes(courseCode, sem) /\ Includes(courseCode, year))
        \/ Includes(termName, year \o <<" ">> \o sem)

\* course.course_code.match(/([A-Z]{3}[0-9]{3})/): the first match, or the
\* raw course code
courseKeyOf(course_code) ==
    LET hit(i) == /\ i + 5 <= Len(course_code)
                  /\ \A k \in 0..2 : course_code[i+k] \in Upper
                  /\ \A k \in 3..5 : course_code[i+k] \in Digit
        hits == {i \in 1..Len(course_code) : hit(i)}
    IN  IF hits = {} THEN course_code
        ELSE Slice(course_code, CHOOSE x \in hits : \A y \in hits : x <= y, 6)

(***************************************************************************)
(* The remote data the runs are checked on: courses and assignments.       *)
(***************************************************************************)
Course(id, name, code, term) ==
    [id |-> id, name |-> name, course_code |-> code, term |-> term]

\* current by its name
CourseEng == Course(1, <<"S","p","r","i","n","g"," ","2","0","2","5">>,
                    <<"E","N","G","1","0","1">>, <<>>)
\* not current
CourseOld == Course(2, <<"O","l","d">>, <<"H","I","S","2","0","0">>,
                    <<"2","0","2","4"," ","F","a","l","l">>)
\* the course code of the specification's example
CourseChem == Course(3, <<"C","h","e","m">>, <<"2","0","2","5","S","P","c">>, <<>>)
\* current by its term name
CourseArt == Course(4, <<"A","r","t">>, <<"A","R","T","3","0","0">>,
                    <<"2","0","2","5"," ","S","p","r","i","n","g">>)

Due1 == <<"2","0","2","5","-","0","3","-","0","1","T","1","2",":","0","0",":","0","0","Z">>
Due2 == <<"2","0","2","5","-","0","4","-","1","5","T","1","2",":","0","0",":","0","0","Z">>
\* due_at: null
NoDue == <<>>

Desc1 == <<"d","1">>
Desc2 == <<"d","2">>
Url1 == <<"u","1">>
Points10 == <<"1","0">>

Assignment(id, name, description, due_at) ==
    [id |-> id, name |-> name, description |-> description,
     html_url |-> Url1, points_possible |-> Points10, due_at |-> due_at]

NameEssay == <<"E","s","s","a","y">>
NameHwEssay == <<"[","H","W","]"," ","E","s","s","a","y">>
NameLowerEssay == <<"e","s","s","a","y">>
NameTwoDates == <<"Q"," ","2","0","2","5","-","0","1","-","0","5"," ",
                  "2","0","2","5","-","0","2","-","0","2">>

\* the assignments a course's list is drawn from
AssignmentPool ==
    { Assignment(1, NameEssay, Desc1, Due1),
      Assignment(2, NameHwEssay, Desc1, NoDue),
      Assignment(3, NameLowerEssay, <<>>, Due1),
      Assignment(4, NameTwoDates, Desc1, Due1) }

(***************************************************************************)
(* Bounds of the model.                                                     *)
(***************************************************************************)
\* runs of createAssignmentNotes in one behaviour
MaxRuns == 2
\* failures of a collaborator (network, storage, templater) in one behaviour
MaxFaults == 1
\* assignments of the course whose list is enumerated
MaxPerCourse == 2

(***************************************************************************)
(* Dates: window.moment(...).format(...)                                    *)
(***************************************************************************)
\* window.moment(due_at).format('YYYY-MM-DD') of an ISO timestamp whose local
\* calendar day is its UTC day
FormatYMD(due_at) == SubSeq(due_at, 1, 10)

MonthNames ==
    << <<"J","a","n","u","a","r","y">>, <<"F","e","b","r","u","a","r","y">>,
       <<"M","a","r","c","h">>, <<"A","p","r","i","l">>, <<"M","a","y">>,
       <<"J","u","n","e">>, <<"J","u","l","y">>, <<"A","u","g","u","s","t">>,
       <<"S","e","p","t","e","m","b","e","r">>, <<"O","c","t","o","b","e","r">>,
       <<"N","o","v","e","m","b","e","r">>, <<"D","e","c","e","m","b","e","r">> >>

DigitVal(c) == CHOOSE n \in 0..9 : <<"0","1","2","3","4","5","6","7","8","9">>[n + 1] = c

\* moment(ymd).format('MMMM Do YYYY'), ymd a YYYY-MM-DD string
FormatLong(ymd) ==
    LET m == 10 * DigitVal(ymd[6]) + DigitVal(ymd[7])
        d == 10 * DigitVal(ymd[9]) + DigitVal(ymd[10])
        dayDigits == IF ymd[9] = "0" THEN <<ymd[10]>> ELSE <<ymd[9], ymd[10]>>
        suffix == IF d \in {11, 12, 13} THEN <<"t","h">>
                  ELSE IF d % 10 = 1 THEN <<"s","t">>
                  ELSE IF d % 10 = 2 THEN <<"n","d">>
                  ELSE IF d % 10 = 3 THEN <<"r","d">>
                  ELSE <<"t","h">>
    IN  MonthNames[m] \o <<" ">> \o dayDigits \o suffix \o <<" ">> \o SubSeq(ymd, 1, 4)

NoDueDateText == <<"N","o"," ","D","u","e"," ","D","a","t","e">>

(***************************************************************************)
(* Note bodies: a body is a sequence of lines, a line a kind and the text   *)
(* that follows the kind's marker ("duedate: ", "Due Date: ", "Points: ").  *)
(***************************************************************************)
Line(k, v) == [k |-> k, v |-> v]
Blank == Line("blank", <<>>)
Heading == Line("heading", <<>>)

\* a template command, before the templater has expanded it
TplCmd == <<"<","%",">">>
TemplateWithDue == <<Line("duedate", TplCmd), Line("duelabel", TplCmd),
                     Line("text", <<"n">>)>>
TemplatePlain == <<Line("text", <<"n">>)>>
Templates == {TemplateWithDue, TemplatePlain}

\* the index of the first line of kind k, 0 when there is none
FirstLine(content, k) ==
    LET hits == {i \in 1..Len(content) : content[i].k = k}
    IN  IF hits = {} THEN 0 ELSE CHOOSE x \in hits : \A y \in hits : x <= y

\* enrichedContent of the create branch
CreateContent(templateContent, a) ==
    templateContent
    \o <<Blank, Heading, Line("points", a.points_possible)>>
    \o (IF a.description # <<>>
        THEN <<Blank, Line("deschead", <<>>), Line("desc", a.description)>>
        ELSE <<>>)
    \o (IF a.html_url # <<>> THEN <<Blank, Line("link", a.html_url)>> ELSE <<>>)

\* faulty variant: the whole body is replaced by the details
ReplaceDetailsWhole(existingContent, a) ==
    <<Heading, Line("points", a.points_possible), Blank,
      Line("deschead", <<>>), Line("desc", a.description), Blank,
      Line("link", a.html_url)>>

\* existingContent.replace(/## Assignment Details[\s\S]*$/, ...)
ReplaceDetails(existingContent, a) ==
    LET i == FirstLine(existingContent, "heading")
    IN  IF i = 0 THEN existingContent
        ELSE SubSeq(existingContent, 1, i - 1)
             \o <<Heading, Line("points", a.points_possible), Blank,
                  Line("deschead", <<>>), Line("desc", a.description), Blank,
                  Line("link", a.html_url)>>

\* fileContent.match(/duedate: (.*?)(\n|$)/), trimmed, '' without a match
CurrentDueDate(fileContent) ==
    LET i == FirstLine(fileContent, "duedate")
    IN  IF i = 0 THEN <<>> ELSE Trim(fileContent[i].v)

\* the two replacements of updateDueDate
UpdatedDueContent(content, newDueDate) ==
    LET formattedDate == IF newDueDate # <<>> THEN FormatLong(newDueDate)
                         ELSE NoDueDateText
        i == FirstLine(content, "duedate")
        j == FirstLine(content, "duelabel")
    IN  [n \in 1..Len(content) |->
            IF n = i THEN Line("duedate", newDueDate)
            ELSE IF n = j THEN Line("duelabel", formattedDate)
            ELSE content[n]]

\* templater.overwrite_file_commands(file): the commands of the template are
\* expanded from the date the note's title ends with
ExpandCommands(content, titleDate) ==
    [n \in 1..Len(content) |->
        IF content[n].v # TplCmd THEN content[n]
        ELSE IF content[n].k = "duedate" THEN Line("duedate", titleDate)
        ELSE Line(content[n].k,
                  IF titleDate # <<>> THEN FormatLong(titleDate) ELSE NoDueDateText)]

(***************************************************************************)
(* Names, paths and keys of one assignment (createAssignmentNotes, lines    *)
(* 319-333).  courseCode is assignment.course.                              *)
(***************************************************************************)
directoryPath(courseCode) == semesterDir \o <<"/">> \o courseCode \o AssignmentsSuffix
formattedDate(due_at) == IF due_at # <<>> THEN FormatYMD(due_at) ELSE <<>>
formattedTitle(cleanedName, courseCode, fdate) ==
    cleanedName \o TitleTag \o courseCode \o <<"-","]"," ">> \o fdate
newNotePath(dirPath, title) == dirPath \o <<"/">> \o title \o MdExt
assignmentKey(courseCode, cleanedName) ==
    ToLower(courseCode \o <<"-">> \o cleanedName)

getAssignmentHash(a) == <<a.name, a.description, a.points_possible, a.html_url>>

\* TFile.basename: the file name without its folder and its extension
LastIndex(s, c) ==
    LET hits == {i \in 1..Len(s) : s[i] = c}
    IN  IF hits = {} THEN 0 ELSE CHOOSE x \in hits : \A y \in hits : y <= x

WithoutExtension(file, dot) ==
    IF dot = 0 THEN file ELSE SubSeq(file, 1, dot - 1)

FileName(path, slash) == From(path, slash + 1)

Stem(file) == WithoutExtension(file, LastIndex(file, "."))

Basename(path) == Stem(FileName(path, LastIndex(path, "/")))

\* the index in notes of the first note under dirPath whose cleaned
\* basename is cleanedName, 0 when there is none
findExistingAssignmentFile(notes, dirPath, cleanedName) ==
    LET hits == {i \in 1..Len(notes) :
                    /\ StartsWith(notes[i].path, dirPath)
                    /\ cleanAssignmentName(Basename(notes[i].path)) = cleanedName}
    IN  IF hits = {} THEN 0 ELSE CHOOSE x \in hits : \A y \in hits : x <= y

(***************************************************************************)
(* The fingerprint store: a set of [key, hash] entries, one per key.        *)
(***************************************************************************)
HasKey(store, key) == \E e \in store : e.key = key
Lookup(store, key) == (CHOOSE e \in store : e.key = key).hash
\* processedAssignments[assignmentKey] = currentHash
Put(store, key, hash) ==
    {e \in store : e.key # key} \cup {[key |-> key, hash |-> hash]}

(***************************************************************************)
(* One iteration of the loop of createAssignmentNotes (lines 318-416).      *)
(*                                                                          *)
(* v is the state the iteration works on: the vault's folders and notes,   *)
(* the in-memory store processedAssignments and the four counters.  fault  *)
(* names the collaborator call that throws in this iteration, "none" when  *)
(* none does.  The result carries the state after the iteration, whether   *)
(* the exception left the loop (abort), and a record of what was done.     *)
(***************************************************************************)
FaultKinds == {"mkdir", "template", "create", "templater", "update", "read",
               "dueUpdate"}

ZeroCounts == [createdCount |-> 0, updatedCount |-> 0,
               dueDateUpdatedCount |-> 0, skippedCount |-> 0]

\* faulty variant: the counter moves by two
IncTwice(counts, field) == [counts EXCEPT ![field] = @ + 2]

Inc(counts, field) == [counts EXCEPT ![field] = @ + 1]

\* the folders of lines 337-345, outermost first
DirLevels(courseCode) ==
    {semesterDir, semesterDir \o <<"/">> \o courseCode, directoryPath(courseCode)}

\* faulty variant: a missing store entry counts as a changed fingerprint
NeedsContentUpdateOrNew(hasPrev, previousHash, currentHash) ==
    ~hasPrev \/ previousHash # currentHash

\* faulty variant: the content is rewritten whenever the store has an entry
NeedsContentUpdateAlways(hasPrev, previousHash, currentHash) == hasPrev

\* line 381: previousHash && previousHash !== currentHash
NeedsContentUpdate(hasPrev, previousHash, currentHash) ==
    hasPrev /\ previousHash # currentHash

\* faulty variant: the due dates are never seen to differ
DueDateNeverDiffers(currentDueDate, fdate) == FALSE

\* line 403: currentDueDate !== formattedDate
DueDateDiffers(currentDueDate, fdate) == currentDueDate # fdate

\* faulty variant: the store is left as it was
RecordHashNever(store, key, currentHash) == store

\* line 415: processedAssignments[assignmentKey] = currentHash
RecordHash(store, key, currentHash) == Put(store, key, currentHash)

\* the note at index n with its content replaced (vault.modify)
Modify(notes, n, content) == [notes EXCEPT ![n].content = content]

\* what the iteration did, for the history of the run
Done(f, outcome, faulted, flags) ==
    [idx |-> f.idx, key |-> f.key, hash |-> f.hash, hasPrev |-> f.hasPrev,
     previousHash |-> f.previousHash, existing |-> f.existing, path |-> f.path,
     fdate |-> f.fdate, noteDueDate |-> f.noteDueDate,
     outcome |-> outcome, faulted |-> faulted,
     createInvoked |-> "createInvoked" \in flags, created |-> "created" \in flags,
     rewrote |-> "rewrote" \in flags, dueDiffered |-> "dueDiffered" \in flags,
     dueUpdated |-> "dueUpdated" \in flags, stored |-> "stored" \in flags,
     pathTaken |-> f.pathTaken]

Result(v, folders, notes, store, counts, abort, out) ==
    [folders |-> folders, notes |-> notes, store |-> store, counts |-> counts,
     abort |-> abort, out |-> out]

\* lines 354-379: no note was found
CreateBranch(v, a, fault, f, folders, enrichedContent, pathTaken) ==
    IF fault = "template"
    THEN Result(v, folders, v.notes, v.store, v.counts, FALSE,
                Done(f, "createFailed", TRUE, {"createInvoked"}))
    ELSE IF fault = "create" \/ pathTaken
    THEN Result(v, folders, v.notes, v.store, v.counts, FALSE,
                Done(f, "createFailed", fault = "create", {"createInvoked"}))
    ELSE IF fault = "templater"
    THEN Result(v, folders,
                Append(v.notes, [path |-> f.path, content |-> enrichedContent]),
                v.store, v.counts, FALSE,
                Done(f, "createFailed", TRUE, {"createInvoked", "created"}))
    ELSE Result(v, folders,
                Append(v.notes, [path |-> f.path,
                                 content |-> ExpandCommands(enrichedContent, f.fdate)]),
                RecordHash(v.store, f.key, f.hash),
                Inc(v.counts, "createdCount"), FALSE,
                Done(f, "created", FALSE, {"createInvoked", "created", "stored"}))

\* lines 399-412: the due-date pass; notes and counts are those the content
\* branch left, fileContent the body read at line 399
DuePass(v, fault, f, folders, notes, counts, fileContent, differs, flags) ==
    IF differs /\ fault # "dueUpdate"
    THEN Result(v, folders,
                Modify(notes, f.existing, UpdatedDueContent(fileContent, f.fdate)),
                RecordHash(v.store, f.key, f.hash),
                Inc(counts, "dueDateUpdatedCount"), FALSE,
                Done(f, "processed", FALSE,
                     flags \cup {"dueDiffered", "dueUpdated", "stored"}))
    ELSE IF differs
    THEN Result(v, folders, notes, RecordHash(v.store, f.key, f.hash), counts, FALSE,
                Done(f, "processed", TRUE, flags \cup {"dueDiffered", "stored"}))
    ELSE Result(v, folders, notes, RecordHash(v.store, f.key, f.hash),
                Inc(counts, "skippedCount"), FALSE,
                Done(f, "processed", FALSE, flags \cup {"stored"}))

\* lines 399-403: the body is read again and its due date compared
ReadAndCompare(v, fault, f, folders, notes, counts, fileContent, flags) ==
    IF fault = "read"
    THEN Result(v, folders, notes, v.store, counts, TRUE,
                Done(f, "readFailed", TRUE, flags))
    ELSE DuePass(v, fault, f, folders, notes, counts, fileContent,
                 DueDateDiffers(CurrentDueDate(fileContent), f.fdate), flags)

\* lines 381-397, then the rest of the else branch
ContentPass(v, a, fault, f, folders, updatedContent, changed) ==
    IF changed /\ fault = "update"
    THEN Result(v, folders, v.notes, v.store, v.counts, FALSE,
                Done(f, "updateFailed", TRUE, {}))
    ELSE IF changed
    THEN ReadAndCompare(v, fault, f, folders,
                        Modify(v.notes, f.existing, updatedContent),
                        Inc(v.counts, "updatedCount"), updatedContent, {"rewrote"})
    ELSE ReadAndCompare(v, fault, f, folders, v.notes, v.counts,
                        v.notes[f.existing].content, {})

\* lines 336-353, then one of the two branches
Branch(v, a, fault, tpl, f, levels) ==
    IF fault = "mkdir" /\ ~(levels \subseteq v.folders)
    THEN \* createFolder throws at the first folder that is missing
         Result(v, v.folders, v.notes, v.store, v.counts, FALSE,
                Done(f, "dirFailed", TRUE, {}))
    ELSE IF f.existing = 0
    THEN CreateBranch(v, a, fault, f, v.folders \cup levels,
                      CreateContent(tpl, a), f.pathTaken)
    ELSE ContentPass(v, a, fault, f, v.folders \cup levels,
                     ReplaceDetails(v.notes[f.existing].content, a),
                     NeedsContentUpdate(f.hasPrev, f.previousHash, f.hash))

\* the values lines 319-333 and 351-352 compute
\* vault.create throws when a file of that path exists
PathTaken(notes, path) == \E n \in 1..Len(notes) : notes[n].path = path

Facts(v, a, idx, cleanedName, fdate, key, path, existing) ==
    [idx |-> idx, cleanedName |-> cleanedName, fdate |-> fdate, key |-> key,
     hash |-> getAssignmentHash(a), path |-> path,
     pathTaken |-> PathTaken(v.notes, path),
     existing |-> existing,
     noteDueDate |-> IF existing = 0 THEN <<>>
                     ELSE CurrentDueDate(v.notes[existing].content),
     hasPrev |-> HasKey(v.store, key),
     previousHash |-> IF HasKey(v.store, key) THEN Lookup(v.store, key) ELSE <<>>]

Located(v, a, idx, cleanedName, dirPath, fdate) ==
    Facts(v, a, idx, cleanedName, fdate, assignmentKey(a.course, cleanedName),
          newNotePath(dirPath, formattedTitle(cleanedName, a.course, fdate)),
          findExistingAssignmentFile(v.notes, dirPath, cleanedName))

Reconcile(v, a, idx, fault, tpl) ==
    Branch(v, a, fault, tpl,
           Located(v, a, idx, cleanAssignmentName(a.name), directoryPath(a.course),
                   formattedDate(a.due_at)),
           DirLevels(a.course))

(***************************************************************************)
(* getAllPages (lines 119-151) and the remote source it reads.              *)
(***************************************************************************)
\* per_page=100 of the request, and the length test of line 140
PerPage == 100

Min(x, y) == IF x <= y THEN x ELSE y

\* the page the remote source returns for page=p&per_page=100
PageOf(list, p) == SubSeq(list, (p - 1) * PerPage + 1, Min(p * PerPage, Len(list)))

\* line 131: Array.isArray(data) && data.length > 0
PageHasData(data) == Len(data) > 0

\* faulty variant: only an empty page ends the pagination
PageNeverShort(data) == FALSE

\* line 140: Array.isArray(data) && data.length < 100
PageIsShort(data) == Len(data) < PerPage

\* faulty variants of the catch clause: the items received so far are lost;
\* the loop goes on and asks for the same page again
AfterPageErrorDropsData(pg) == [pg EXCEPT !.hasMore = FALSE, !.allData = <<>>]

AfterPageErrorRetries(pg) == pg

\* line 144-147: the catch clause of the loop
AfterPageError(pg) == [pg EXCEPT !.hasMore = FALSE]

FirstPage == [allData |-> <<>>, page |-> 1, hasMore |-> TRUE]

\* one turn of the while loop: ok is FALSE when makeRequest threw, data is
\* the page received otherwise
PageStep(pg, ok, data) ==
    IF ~ok THEN AfterPageError(pg)
    ELSE [allData |-> IF PageHasData(data) THEN pg.allData \o data ELSE pg.allData,
          page |-> IF PageHasData(data) THEN pg.page + 1 ELSE pg.page,
          hasMore |-> PageHasData(data) /\ ~PageIsShort(data)]

(***************************************************************************)
(* fetchCanvasAssignments (lines 248-286)                                   *)
(***************************************************************************)
\* line 254
CurrentCourses(courses) == SelectSeq(courses, isCurrentSemesterCourse)

\* lines 268-276: one fetched assignment, annotated with its course
Annotate(a, course) ==
    [id |-> a.id, name |-> a.name, description |-> a.description,
     html_url |-> a.html_url, points_possible |-> a.points_possible,
     due_at |-> a.due_at, course_code |-> course.course_code,
     course_name |-> course.name, course |-> courseKeyOf(course.course_code)]

AnnotateAll(assignments, course) ==
    [n \in 1..Len(assignments) |-> Annotate(assignments[n], course)]

(***************************************************************************)
(* State                                                                    *)
(***************************************************************************)
VARIABLES
    remote,      \* the LMS: its courses and the assignments of each course
    template,    \* the body of the template file of settings.templatePath
    vault,       \* the note storage: folders and notes, in creation order
    storeFile,   \* processed_assignments.json
    runs,        \* the calls of createAssignmentNotes, by number
    faults,      \* collaborator failures so far
    gapEdited,   \* the remote data was edited since the last run ended
    probe        \* a title and what cleanAssignmentName makes of it

vars == <<remote, template, vault, storeFile, runs, faults, gapEdited, probe>>

\* no title is being cleaned
NoProbe == [pc |-> "off", name |-> <<>>, once |-> <<>>, twice |-> <<>>]

RunIds == 1..MaxRuns

IdleRun ==
    [pc |-> "idle", templater |-> FALSE, notices |-> <<>>,
     processedAssignments |-> {},
     pg |-> FirstPage, currentSemesterCourses |-> <<>>, ci |-> 0,
     allAssignments |-> <<>>, ai |-> 0, counts |-> ZeroCounts,
     \* history of the run: requests made, iterations done, store file accesses
     requests |-> <<>>, returned |-> <<>>, log |-> <<>>,
     storeReads |-> 0, storeWrites |-> 0, failures |-> 0]

\* sequences over S of length at most n
SeqUpTo(S, n) == UNION {[1..k -> S] : k \in 0..n}

SmallCourses == <<CourseEng, CourseOld, CourseChem, CourseArt>>

Init ==
    /\ \E list \in SeqUpTo(AssignmentPool, MaxPerCourse) :
          remote = [courses |-> SmallCourses,
                    assignments |-> [c \in 1..4 |->
                        IF c = 1 THEN list
                        ELSE IF c = 4 THEN <<Assignment(5, NameEssay, Desc1, NoDue)>>
                        ELSE <<Assignment(6, NameEssay, Desc1, Due1)>>]]
    /\ template \in Templates
    /\ vault = [folders |-> {}, notes |-> <<>>]
    /\ storeFile = [exists |-> FALSE, data |-> {}]
    /\ runs = [r \in RunIds |-> IdleRun]
    /\ faults = 0
    /\ gapEdited = FALSE
    /\ probe = NoProbe

(***************************************************************************)
(* createAssignmentNotes (lines 298-426)                                    *)
(***************************************************************************)
Notice(kind, counts) == [kind |-> kind, counts |-> counts]

\* faulty variant: the check of the plugin never stops the run
TemplaterNeverMissing(templater) == FALSE

\* line 303: if (!templater)
TemplaterMissing(templater) == ~templater

\* the ribbon icon or the command starts run r; templater tells whether
\* app.plugins.plugins["templater-obsidian"] is there
Trigger(r) ==
    /\ runs[r].pc = "idle"
    /\ \A q \in RunIds : q < r => runs[q].pc = "done"
    /\ \E templater \in BOOLEAN :
          runs' = [runs EXCEPT ![r] =
                    IF TemplaterMissing(templater)
                    THEN [@ EXCEPT !.pc = "done", !.templater = templater,
                                   !.notices = <<Notice("TemplaterMissing", ZeroCounts)>>]
                    ELSE [@ EXCEPT !.pc = "load", !.templater = templater,
                                   !.notices = <<Notice("Fetching", ZeroCounts)>>]]
    /\ gapEdited' = FALSE
    /\ UNCHANGED <<remote, template, vault, storeFile, faults, probe>>

\* loadProcessedAssignments (lines 153-166): ok is FALSE when the read or
\* the parse throws
LoadStore(r) ==
    /\ runs[r].pc = "load"
    /\ \E ok \in BOOLEAN :
          /\ ok \/ (storeFile.exists /\ faults < MaxFaults)
          /\ faults' = IF ok THEN faults ELSE faults + 1
          /\ runs' = [runs EXCEPT ![r] =
                [@ EXCEPT !.pc = "courses", !.pg = FirstPage,
                          !.storeReads = @ + 1,
                          !.failures = IF ok THEN @ ELSE @ + 1,
                          !.processedAssignments =
                              IF storeFile.exists /\ ok THEN storeFile.data ELSE {}]]
    /\ UNCHANGED <<remote, template, vault, storeFile, gapEdited, probe>>

\* the collection a run is paginating
Fetching(run) ==
    IF run.pc = "courses" THEN remote.courses
    ELSE remote.assignments[run.currentSemesterCourses[run.ci].id]

\* the run once getAllPages has returned allData to fetchCanvasAssignments
AfterPages(run, allData) ==
    IF run.pc = "courses"
    THEN LET current == CurrentCourses(allData)
         IN  IF Len(current) = 0
             THEN [run EXCEPT !.currentSemesterCourses = current,
                              !.pc = "process", !.ai = 1]
             ELSE [run EXCEPT !.currentSemesterCourses = current,
                              !.pc = "assignments", !.ci = 1, !.pg = FirstPage]
    ELSE LET all == run.allAssignments
                    \o AnnotateAll(allData, run.currentSemesterCourses[run.ci])
         IN  IF run.ci = Len(run.currentSemesterCourses)
             THEN [run EXCEPT !.allAssignments = all, !.pc = "process", !.ai = 1]
             ELSE [run EXCEPT !.allAssignments = all, !.ci = @ + 1,
                              !.pg = FirstPage]

\* getAllPages returns allData, for the history of the run
Returned(run, allData) ==
    [run EXCEPT !.returned =
        Append(@, [target |-> IF run.pc = "courses" THEN 0
                              ELSE run.currentSemesterCourses[run.ci].id,
                   data |-> allData])]

\* the run after a request: pg is the pagination state PageStep left
AfterRequest(run, pg) ==
    IF pg.hasMore THEN [run EXCEPT !.pg = pg]
    ELSE AfterPages(Returned([run EXCEPT !.pg = pg], pg.allData), pg.allData)

\* the request, for the history of the run
Logged(run, ok, data) ==
    [run EXCEPT !.requests =
        Append(@, [target |-> IF run.pc = "courses" THEN 0
                              ELSE run.currentSemesterCourses[run.ci].id,
                   page |-> run.pg.page, ok |-> ok,
                   n |-> IF ok THEN Len(data) ELSE 0]),
                !.failures = IF ok THEN @ ELSE @ + 1]

Requested(run, ok, data) ==
    AfterRequest(Logged(run, ok, data), PageStep(run.pg, ok, data))

\* one request of getAllPages, with what follows it up to the next request
Request(r) ==
    /\ runs[r].pc \in {"courses", "assignments"}
    /\ \E ok \in BOOLEAN :
          /\ ok \/ faults < MaxFaults
          /\ faults' = IF ok THEN faults ELSE faults + 1
          /\ runs' = [runs EXCEPT ![r] =
                        Requested(@, ok, PageOf(Fetching(@), @.pg.page))]
    /\ UNCHANGED <<remote, template, vault, storeFile, gapEdited, probe>>

\* the run after an iteration of the loop; an exception that left the loop
\* is caught at line 422
Iterated(run, res) ==
    [run EXCEPT !.processedAssignments = res.store,
                !.counts = res.counts,
                !.log = Append(@, res.out @@ [before |-> run.counts,
                                              after |-> res.counts]),
                !.ai = @ + 1,
                !.failures = IF res.out.faulted THEN @ + 1 ELSE @,
                !.pc = IF res.abort THEN "done" ELSE @,
                !.notices = IF res.abort THEN Append(@, Notice("Error", ZeroCounts))
                            ELSE @]

Applied(r, fault, res) ==
    /\ fault = "none" \/ (res.out.faulted /\ faults < MaxFaults)
    /\ faults' = IF fault = "none" THEN faults ELSE faults + 1
    /\ vault' = [folders |-> res.folders, notes |-> res.notes]
    /\ runs' = [runs EXCEPT ![r] = Iterated(@, res)]

\* one iteration of the loop over the assignments
ProcessAssignment(r) ==
    /\ runs[r].pc = "process"
    /\ runs[r].ai <= Len(runs[r].allAssignments)
    /\ \E fault \in FaultKinds \cup {"none"} :
          Applied(r, fault,
                  Reconcile([folders |-> vault.folders, notes |-> vault.notes,
                             store |-> runs[r].processedAssignments,
                             counts |-> runs[r].counts],
                            runs[r].allAssignments[runs[r].ai], runs[r].ai,
                            fault, template))
    /\ UNCHANGED <<remote, template, storeFile, gapEdited, probe>>

\* lines 418-420: saveProcessedAssignments and the summary; ok is FALSE when
\* the write throws (caught at line 176)
SaveAndReport(r) ==
    /\ runs[r].pc = "process"
    /\ runs[r].ai > Len(runs[r].allAssignments)
    /\ \E ok \in BOOLEAN :
          /\ ok \/ faults < MaxFaults
          /\ faults' = IF ok THEN faults ELSE faults + 1
          /\ storeFile' = IF ok THEN [exists |-> TRUE,
                                      data |-> runs[r].processedAssignments]
                          ELSE storeFile
          /\ runs' = [runs EXCEPT ![r] =
                [@ EXCEPT !.pc = "done", !.storeWrites = @ + 1,
                          !.failures = IF ok THEN @ ELSE @ + 1,
                          !.notices = Append(@, Notice("Summary", runs[r].counts))]]
    /\ UNCHANGED <<remote, template, vault, gapEdited, probe>>

\* between two runs the teacher edits one assignment of the first course:
\* its due date or its description
RemoteEdit ==
    /\ ~gapEdited
    /\ \E r \in RunIds : runs[r].pc = "idle"
    /\ \A r \in RunIds : runs[r].pc \in {"idle", "done"}
    /\ \E r \in RunIds : runs[r].pc = "done"
    /\ \E i \in 1..Len(remote.assignments[1]) :
          LET a == remote.assignments[1][i]
          IN  \E b \in {[a EXCEPT !.due_at = d] : d \in {Due1, Due2, NoDue}}
                       \cup {[a EXCEPT !.description =
                                    IF @ = Desc1 THEN Desc2 ELSE Desc1]} :
                 /\ b # a
                 /\ remote' = [remote EXCEPT !.assignments[1][i] = b]
    /\ gapEdited' = TRUE
    /\ UNCHANGED <<template, vault, storeFile, runs, faults, probe>>

Next ==
    \/ \E r \in RunIds : Trigger(r)
    \/ \E r \in RunIds : LoadStore(r)
    \/ \E r \in RunIds : Request(r)
    \/ \E r \in RunIds : ProcessAssignment(r)
    \/ \E r \in RunIds : SaveAndReport(r)
    \/ RemoteEdit

Spec == Init /\ [][Next]_vars



(***************************************************************************)
(* The same program on a remote source whose collections fill whole pages,  *)
(* with a storage that does not fail.                                       *)
(***************************************************************************)
\* full pages of a collection
MaxFullPages == 1

\* n courses: the first and the last are current, the others are not
BigCourses(n) ==
    [i \in 1..n |-> IF i = 1 THEN CourseEng
                    ELSE IF i = n THEN CourseArt ELSE CourseOld]

\* m assignments of one course
BigAssignments(m) == [i \in 1..m |-> Assignment(i, NameEssay, Desc1, Due1)]

InitBig ==
    /\ \E N \in 0..MaxFullPages, M \in 0..MaxFullPages, k \in {0, 2}, j \in {0, 1} :
          /\ N * PerPage + k >= 2
          /\ remote = [courses |-> BigCourses(N * PerPage + k),
                       assignments |-> [c \in 1..4 |->
                          IF c = 1 THEN BigAssignments(M * PerPage + j)
                          ELSE <<Assignment(5, NameEssay, Desc1, NoDue)>>]]
    /\ template = TemplateWithDue
    /\ vault = [folders |-> {}, notes |-> <<>>]
    /\ storeFile = [exists |-> FALSE, data |-> {}]
    /\ runs = [r \in RunIds |-> IdleRun]
    /\ faults = 0
    /\ gapEdited = FALSE
    /\ probe = NoProbe

\* one iteration of the loop in which no call throws
ProcessReliably(r) ==
    /\ runs[r].pc = "process"
    /\ runs[r].ai <= Len(runs[r].allAssignments)
    /\ Applied(r, "none",
               Reconcile([folders |-> vault.folders, notes |-> vault.notes,
                          store |-> runs[r].processedAssignments,
                          counts |-> runs[r].counts],
                         runs[r].allAssignments[runs[r].ai], runs[r].ai,
                         "none", template))
    /\ UNCHANGED <<remote, template, storeFile, gapEdited, probe>>

NextBig ==
    \/ \E r \in RunIds : Trigger(r)
    \/ \E r \in RunIds : LoadStore(r)
    \/ \E r \in RunIds : Request(r)
    \/ \E r \in RunIds : ProcessReliably(r)
    \/ \E r \in RunIds : SaveAndReport(r)

SpecBig == InitBig /\ [][NextBig]_vars

(***************************************************************************)
(* cleanAssignmentName on its own: a title put together from the pieces    *)
(* the function looks for is cleaned, and the result cleaned again.         *)
(***************************************************************************)
\* pieces of one title
MaxPieces == 3

\* a bracketed tag, a course token, a date, an illegal character, a word, a
\* space
TitlePieces ==
    { <<"[","H","W","]">>, <<"-","A","B","C","1","2","3","-">>,
      <<"2","0","2","5","-","0","1","-","0","5">>, <<"*">>, <<"Q">>, <<" ">> }

RECURSIVE Join(_)
Join(pieces) == IF pieces = <<>> THEN <<>> ELSE Head(pieces) \o Join(Tail(pieces))

Titles == {Join(pieces) : pieces \in SeqUpTo(TitlePieces, MaxPieces)}

InitClean ==
    /\ remote = [courses |-> SmallCourses, assignments |-> [c \in 1..4 |-> <<>>]]
    /\ template = TemplatePlain
    /\ vault = [folders |-> {}, notes |-> <<>>]
    /\ storeFile = [exists |-> FALSE, data |-> {}]
    /\ runs = [r \in RunIds |-> IdleRun]
    /\ faults = 0
    /\ gapEdited = FALSE
    /\ \E name \in Titles :
          probe = [pc |-> "raw", name |-> name, once |-> <<>>, twice |-> <<>>]

\* cleanAssignmentName(name)
CleanFirst ==
    /\ probe.pc = "raw"
    /\ probe' = [probe EXCEPT !.pc = "once", !.once = cleanAssignmentName(probe.name)]
    /\ UNCHANGED <<remote, template, vault, storeFile, runs, faults, gapEdited>>

\* cleanAssignmentName of the cleaned name
CleanAgain ==
    /\ probe.pc = "once"
    /\ probe' = [probe EXCEPT !.pc = "twice", !.twice = cleanAssignmentName(probe.once)]
    /\ UNCHANGED <<remote, template, vault, storeFile, runs, faults, gapEdited>>

NextClean == CleanFirst \/ CleanAgain

SpecClean == InitClean /\ [][NextClean]_vars


(***************************************************************************)
(* The same program when the ribbon icon or the command is used again       *)
(* while a run is suspended at one of its awaits.                           *)
(***************************************************************************)
InitOverlap ==
    /\ remote = [courses |-> SmallCourses,
                 assignments |-> [c \in 1..4 |->
                    IF c = 1 THEN <<Assignment(1, NameEssay, Desc1, Due1)>>
                    ELSE <<Assignment(5, NameEssay, Desc1, NoDue)>>]]
    /\ template \in Templates
    /\ vault = [folders |-> {}, notes |-> <<>>]
    /\ storeFile = [exists |-> FALSE, data |-> {}]
    /\ runs = [r \in RunIds |-> IdleRun]
    /\ faults = 0
    /\ gapEdited = FALSE
    /\ probe = NoProbe

\* lines 56-58 and 67-73: the callbacks call createAssignmentNotes without
\* awaiting it and without looking for a run in progress; runs are numbered
\* in the order they start
TriggerAnytime(r) ==
    /\ runs[r].pc = "idle"
    /\ \A q \in RunIds : q < r => runs[q].pc # "idle"
    /\ \E templater \in BOOLEAN :
          runs' = [runs EXCEPT ![r] =
                    IF TemplaterMissing(templater)
                    THEN [@ EXCEPT !.pc = "done", !.templater = templater,
                                   !.notices = <<Notice("TemplaterMissing", ZeroCounts)>>]
                    ELSE [@ EXCEPT !.pc = "load", !.templater = templater,
                                   !.notices = <<Notice("Fetching", ZeroCounts)>>]]
    /\ UNCHANGED <<remote, template, vault, storeFile, faults, gapEdited, probe>>

NextOverlap ==
    \/ \E r \in RunIds : TriggerAnytime(r)
    \/ \E r \in RunIds : LoadStore(r)
    \/ \E r \in RunIds : Request(r)
    \/ \E r \in RunIds : ProcessAssignment(r)
    \/ \E r \in RunIds : SaveAndReport(r)

SpecOverlap == InitOverlap /\ [][NextOverlap]_vars

(***************************************************************************)
(* Properties                                                               *)
(***************************************************************************)
\* the run passed the check of line 303 and ended with the summary of line 420
Reported(r) ==
    /\ runs[r].pc = "done"
    /\ runs[r].templater
    /\ runs[r].notices[Len(runs[r].notices)].kind = "Summary"

KeyOf(a) == assignmentKey(a.course, cleanAssignmentName(a.name))

SumOf(counts) ==
    counts.createdCount + counts.updatedCount + counts.dueDateUpdatedCount
    + counts.skippedCount

\* C1 (as claimed): when run 1 completed without a collaborator failure and
\* run 2 fetched the same assignments, also without a failure, run 2 creates
\* no note and rewrites the content of no note.
C1_Idempotent ==
    (/\ Reported(1) /\ runs[1].failures = 0
     /\ runs[2].templater /\ runs[2].pc \in {"process", "done"}
     /\ runs[2].failures = 0
     /\ runs[2].allAssignments = runs[1].allAssignments)
    => \A i \in DOMAIN runs[2].log :
          ~runs[2].log[i].created /\ ~runs[2].log[i].rewrote

\* C2 (for the runs without a collaborator failure): at the end
\* of the run the store holds, for every fetched assignment, that assignment's
\* fingerprint under its DedupKey.
C2_StoreHoldsEveryFetched ==
    \A r \in RunIds :
        (Reported(r) /\ runs[r].failures = 0) =>
            \A i \in DOMAIN runs[r].allAssignments :
                LET a == runs[r].allAssignments[i]
                IN  /\ HasKey(runs[r].processedAssignments, KeyOf(a))
                    /\ Lookup(runs[r].processedAssignments, KeyOf(a))
                         = getAssignmentHash(a)

\* C3 (as claimed, for the runs without a collaborator failure): every
\* iteration increments exactly one of the four counters by one.
C3_ExactlyOneCounter ==
    \A r \in RunIds :
        \A i \in DOMAIN runs[r].log :
            runs[r].failures = 0 =>
            SumOf(runs[r].log[i].after) = SumOf(runs[r].log[i].before) + 1

\* C3 (amended): every iteration increments each counter at most once and at
\* most one of created, due-date-updated and skipped; updated is incremented
\* only with a content rewrite, beside due-date-updated or skipped; an
\* iteration that fails, or whose due-date update fails, may increment none.
\* The summary reports these counters.
C3_CountersPerOutcome ==
    \A r \in RunIds :
        /\ \A i \in DOMAIN runs[r].log :
              LET e == runs[r].log[i]
                  d(field) == e.after[field] - e.before[field]
              IN  /\ \A field \in DOMAIN ZeroCounts : d(field) \in {0, 1}
                  /\ d("createdCount") + d("dueDateUpdatedCount")
                       + d("skippedCount") <= 1
                  /\ d("createdCount") = 1 => d("updatedCount") = 0
                  /\ d("updatedCount") = 1 <=> e.rewrote
                  /\ d("createdCount") = 1 <=> e.outcome = "created"
                  /\ d("dueDateUpdatedCount") = 1 <=> e.dueUpdated
                  /\ d("skippedCount") = 1 <=>
                        (e.outcome = "processed" /\ ~e.dueDiffered)
                  /\ i > 1 => e.before = runs[r].log[i-1].after
                  /\ i = 1 => e.before = ZeroCounts
                  /\ i = Len(runs[r].log) => e.after = runs[r].counts
        /\ SumOf(runs[r].counts) <= 2 * Len(runs[r].log)
        /\ Reported(r) =>
              runs[r].notices[Len(runs[r].notices)].counts = runs[r].counts

\* an iteration counted twice (content rewrite and skip) and one not at all
C3_Witness ==
    \E r \in RunIds :
        /\ Reported(r)
        /\ \E i, j \in DOMAIN runs[r].log :
              /\ SumOf(runs[r].log[i].after) = SumOf(runs[r].log[i].before) + 2
              /\ SumOf(runs[r].log[j].after) = SumOf(runs[r].log[j].before)

\* C4: a run started without the templater plugin ends in that step with the
\* notice alone: no request, no access to the store file, no iteration, and
\* the vault and the store file are left as they were.
C4_AbortsBeforeAnyWork ==
    [][\A r \in RunIds :
          (runs[r].pc = "idle" /\ runs'[r].pc # "idle" /\ ~runs'[r].templater)
          => /\ runs'[r].pc = "done"
             /\ runs'[r].notices = <<Notice("TemplaterMissing", ZeroCounts)>>
             /\ runs'[r].requests = <<>> /\ runs'[r].log = <<>>
             /\ runs'[r].storeReads = 0 /\ runs'[r].storeWrites = 0
             /\ vault' = vault /\ storeFile' = storeFile]_vars

\* the second run aborted for the missing plugin, on a vault that holds notes
C4_Witness ==
    /\ runs[2].pc = "done" /\ ~runs[2].templater
    /\ Len(vault.notes) > 0 /\ storeFile.exists

\* C5 (as claimed): a run that passed the collaborator check processes every
\* fetched assignment, persists the store and reports the summary, whatever
\* storage operation failed on the way.
C5_FailureAbortsOneAssignment ==
    \A r \in RunIds :
        (runs[r].templater /\ runs[r].pc = "done")
        => /\ Len(runs[r].log) = Len(runs[r].allAssignments)
           /\ runs[r].storeWrites = 1
           /\ runs[r].notices[Len(runs[r].notices)].kind = "Summary"

\* C9 (as claimed): an iteration that finds no store entry for the DedupKey,
\* in a run without a collaborator failure, creates the note, records the
\* fingerprint and counts one creation.
C9_NewKeyCreates ==
    \A r \in RunIds :
        \A i \in DOMAIN runs[r].log :
            LET e == runs[r].log[i]
            IN  (~e.hasPrev /\ runs[r].failures = 0)
                => /\ e.createInvoked /\ e.created
                   /\ e.after.createdCount = e.before.createdCount + 1

\* C9 (amended): an iteration that finds no matching note, and in which no
\* collaborator fails, creates the note at its path, once in the run, records
\* the fingerprint under the DedupKey and adds one to the created counter,
\* whether or not the store held an entry for the DedupKey.
C9_NoNoteCreates ==
    \A r \in RunIds :
        \A i \in DOMAIN runs[r].log :
            LET e == runs[r].log[i]
            IN  (e.existing = 0 /\ ~e.faulted /\ ~e.pathTaken)
                => /\ e.createInvoked /\ e.outcome = "created"
                   /\ PathTaken(vault.notes, e.path)
                   /\ Cardinality({j \in DOMAIN runs[r].log :
                                     runs[r].log[j].path = e.path
                                     /\ runs[r].log[j].created}) = 1
                   /\ e.after.createdCount = e.before.createdCount + 1
                   /\ (\A j \in DOMAIN runs[r].log :
                         j > i => ~(runs[r].log[j].stored /\ runs[r].log[j].key = e.key))
                      => /\ HasKey(runs[r].processedAssignments, e.key)
                         /\ Lookup(runs[r].processedAssignments, e.key) = e.hash

\* a note created for a DedupKey the store already held, and one for a new key
C9_Witness ==
    \E r \in RunIds :
        \E i, j \in DOMAIN runs[r].log :
            /\ runs[r].log[i].outcome = "created" /\ runs[r].log[i].hasPrev
            /\ runs[r].log[j].outcome = "created" /\ ~runs[r].log[j].hasPrev

\* C10: an iteration that finds a matching note whose due date is the
\* formatted due date, and the current fingerprint in the store, and in which
\* no call throws, adds one to the skipped counter and leaves the vault as it
\* was.
C10_UnchangedIsSkipped ==
    [][\A r \in RunIds :
          (/\ runs[r].pc = "process"
           /\ Len(runs'[r].log) = Len(runs[r].log) + 1
           /\ ~runs'[r].log[Len(runs'[r].log)].faulted)
          => LET a == runs[r].allAssignments[runs[r].ai]
                 n == findExistingAssignmentFile(vault.notes, directoryPath(a.course),
                                                 cleanAssignmentName(a.name))
                 store == runs[r].processedAssignments
             IN  (/\ n # 0
                  /\ HasKey(store, KeyOf(a))
                  /\ Lookup(store, KeyOf(a)) = getAssignmentHash(a)
                  /\ CurrentDueDate(vault.notes[n].content) = formattedDate(a.due_at))
                 => /\ vault' = vault
                    /\ runs'[r].counts = Inc(runs[r].counts, "skippedCount")]_vars

\* an iteration on a matching note with a due date, unchanged since the store
\* recorded it
C10_Witness ==
    \E r \in RunIds :
        \E i \in DOMAIN runs[r].log :
            LET e == runs[r].log[i]
            IN  /\ e.existing # 0 /\ e.hasPrev /\ e.previousHash = e.hash
                /\ e.noteDueDate = e.fdate /\ e.fdate # <<>> /\ ~e.faulted
                /\ e.after.skippedCount = e.before.skippedCount + 1


\* the collection behind a target of getAllPages: 0 is the course list, any
\* other number the assignments of the course of that id
Source(t) == IF t = 0 THEN remote.courses ELSE remote.assignments[t]

\* the requests run r made for target t, in order
RequestsFor(r, t) == SelectSeq(runs[r].requests, LAMBDA q : q.target = t)

\* getAllPages has returned for target t in run r
HasReturned(r, t) == \E n \in DOMAIN runs[r].returned : runs[r].returned[n].target = t

ReturnedFor(r, t) ==
    runs[r].returned[CHOOSE n \in DOMAIN runs[r].returned :
                        runs[r].returned[n].target = t].data

Targets == {0} \cup DOMAIN remote.assignments

\* the assignments of the courses cs, annotated, from what getAllPages
\* returned for each (returned[1] is the course list)
RECURSIVE Gathered(_, _, _)
Gathered(returned, cs, n) ==
    IF n = 0 THEN <<>>
    ELSE Gathered(returned, cs, n - 1) \o AnnotateAll(returned[n + 1].data, cs[n])

\* the counters the iterations of a log add up to
Tally(log) ==
    [createdCount |-> Cardinality({i \in DOMAIN log : log[i].outcome = "created"}),
     updatedCount |-> Cardinality({i \in DOMAIN log : log[i].rewrote}),
     dueDateUpdatedCount |-> Cardinality({i \in DOMAIN log : log[i].dueUpdated}),
     skippedCount |-> Cardinality({i \in DOMAIN log :
                         log[i].outcome = "processed" /\ ~log[i].dueDiffered})]

\* C6: whatever request failed, once the fetch is over every current course
\* has been fetched, in the order of the course list, the assignments of the
\* run are those of the pages received before a failure, course by course,
\* and a run that ends ends with the summary of the counters of the
\* assignments it processed.
C6_FetchFailureKeepsRunGoing ==
    \A r \in RunIds :
        (runs[r].templater /\ runs[r].pc \in {"process", "done"})
        => LET cs == runs[r].currentSemesterCourses
               ret == runs[r].returned
           IN  /\ Len(ret) = 1 + Len(cs)
               /\ cs = CurrentCourses(ret[1].data)
               /\ \A c \in DOMAIN cs :
                     /\ ret[c + 1].target = cs[c].id
                     /\ LET q == RequestsFor(r, cs[c].id)
                        IN  ret[c + 1].data =
                              IF q[Len(q)].ok THEN Source(cs[c].id)
                              ELSE SubSeq(Source(cs[c].id), 1, (Len(q) - 1) * PerPage)
               /\ runs[r].allAssignments = Gathered(ret, cs, Len(cs))
               /\ runs[r].pc = "done"
                  => /\ Len(runs[r].log) = Len(runs[r].allAssignments)
                     /\ runs[r].notices[Len(runs[r].notices)] =
                          Notice("Summary", Tally(runs[r].log))

\* the second page of the first course failed: its first hundred assignments
\* and the one of the last course were processed and reported
C6_Witness ==
    \E r \in RunIds :
        /\ Reported(r)
        /\ Len(RequestsFor(r, 1)) = 2 /\ ~RequestsFor(r, 1)[2].ok
        /\ Len(remote.assignments[1]) > PerPage
        /\ Len(RequestsFor(r, 4)) = 1
        /\ Len(runs[r].log) = PerPage + 1

\* C7: a pagination in which no request failed asked for the pages 1..N+1,
\* once each and in order, N the number of full pages of the collection, got
\* a hundred items for each of the first N and the remainder for the last,
\* and returned the collection.
C7_PaginationRequests ==
    \A r \in RunIds :
        \A t \in Targets :
            (HasReturned(r, t) /\ \A i \in DOMAIN RequestsFor(r, t) : RequestsFor(r, t)[i].ok)
            => LET q == RequestsFor(r, t)
                   N == Len(Source(t)) \div PerPage
               IN  /\ Len(q) = N + 1
                   /\ \A i \in DOMAIN q :
                         /\ q[i].page = i
                         /\ q[i].n = IF i <= N THEN PerPage ELSE Len(Source(t)) % PerPage
                   /\ ReturnedFor(r, t) = Source(t)

\* a collection of one full page and an empty one, and a collection of one
\* full page and a page of two
C7_Witness ==
    \E r \in RunIds :
        /\ HasReturned(r, 1) /\ Len(remote.assignments[1]) = PerPage
        /\ Len(RequestsFor(r, 1)) = 2 /\ RequestsFor(r, 1)[2].ok
        /\ Len(remote.courses) = PerPage + 2
        /\ Len(RequestsFor(r, 0)) = 2 /\ RequestsFor(r, 0)[2].ok

\* C8: a failed request is the last request of its pagination; getAllPages
\* returns the items of the pages before it, and the run goes on without an
\* error notice.
C8_FailedRequestEndsPagination ==
    \A r \in RunIds :
        \A t \in Targets :
            \A i \in DOMAIN RequestsFor(r, t) :
                ~RequestsFor(r, t)[i].ok
                => /\ i = Len(RequestsFor(r, t))
                   /\ HasReturned(r, t)
                   /\ ReturnedFor(r, t) = SubSeq(Source(t), 1, (i - 1) * PerPage)
                   /\ \A n \in DOMAIN runs[r].notices : runs[r].notices[n].kind # "Error"
                   /\ runs[r].pc \in {"assignments", "process", "done"}

\* the second page of the course list failed after a full first page
C8_Witness ==
    \E r \in RunIds :
        /\ Len(RequestsFor(r, 0)) = 2 /\ ~RequestsFor(r, 0)[2].ok
        /\ Len(ReturnedFor(r, 0)) = PerPage
        /\ runs[r].pc = "done"


OnlyDueDateChanged(r, q, i) ==
    /\ Len(runs[q].allAssignments) = Len(runs[r].allAssignments)
    /\ i \in DOMAIN runs[r].allAssignments
    /\ \A j \in DOMAIN runs[r].allAssignments :
          j # i => runs[q].allAssignments[j] = runs[r].allAssignments[j]
    /\ runs[q].allAssignments[i].due_at # runs[r].allAssignments[i].due_at
    /\ runs[q].allAssignments[i] =
          [runs[r].allAssignments[i] EXCEPT !.due_at = runs[q].allAssignments[i].due_at]

\* C12 (as claimed): when a run completed without a failure and the next run,
\* also without a failure, fetches the same assignments but for the due date
\* of one that has a matching note, that assignment's iteration of the next
\* run rewrites no content and finds its own fingerprint in the store, which
\* it leaves there: nothing but the due date of the note is touched.
C12_DueDateChangeAlone ==
    \A r \in RunIds : \A q \in RunIds :
        (/\ q = r + 1
         /\ Reported(r) /\ runs[r].failures = 0 /\ runs[q].failures = 0)
        => \A i \in DOMAIN runs[q].log :
              (OnlyDueDateChanged(r, q, i) /\ runs[q].log[i].existing # 0)
              => LET e == runs[q].log[i]
                 IN  /\ ~e.rewrote
                     /\ e.hasPrev /\ e.previousHash = e.hash


\* the course code of the specification's example
ExampleCode == <<"2","0","2","5","S","P","c">>

\* neither the semester nor the year occurs in the name, the code or the
\* term name of the course
MatchesNeitherToken(c) ==
    \A field \in {ToLower(c.name), ToLower(c.course_code), ToLower(c.term)} :
        ~Includes(field, ToLower(semester)) /\ ~Includes(field, year)

InSeq(x, seq) == \E n \in DOMAIN seq : seq[n] = x

\* C13 (as claimed), with semester "Spring" and year "2025": of the courses
\* received, the one whose course code is "2025SPc" is kept as a course of
\* the current term, and one that matches neither token is not.
C13_TermExamples ==
    \A r \in RunIds :
        runs[r].returned # <<>>
        => \A n \in DOMAIN runs[r].returned[1].data :
              LET c == runs[r].returned[1].data[n]
              IN  /\ c.course_code = ExampleCode
                     => /\ isCurrentSemesterCourse(c)
                        /\ InSeq(c, runs[r].currentSemesterCourses)
                  /\ MatchesNeitherToken(c)
                     => /\ ~isCurrentSemesterCourse(c)
                        /\ ~InSeq(c, runs[r].currentSemesterCourses)


\* s holds a YYYY-MM-DD date
HasDate(s) == \E i \in 1..Len(s) : DateAt(s, i)

\* C14 (as claimed): cleaning a cleaned title changes nothing.
C14_CleanIdempotent ==
    probe.pc = "twice" => probe.twice = probe.once

\* C14 (amended): cleaning a cleaned title changes nothing when no date is
\* left in the cleaned title, which is so for every title that holds at most
\* one date; a cleaned title that still holds a date loses it to the second
\* cleaning.
C14_CleanIdempotentButForDates ==
    probe.pc = "twice"
    => /\ ~HasDate(probe.once) => probe.twice = probe.once
       /\ HasDate(probe.once) => probe.twice # probe.once
       /\ Cardinality({i \in 1..Len(probe.name) : DateAt(probe.name, i)}) <= 1
          => ~HasDate(probe.once)

\* a title with a tag, a token and a date, cleaned twice
C14_Witness ==
    /\ probe.pc = "twice"
    /\ Len(probe.name) = 22
    /\ HasDate(probe.name)
    /\ probe.once = <<>>


\* C15: an iteration rewrites the content of a note only if it found a
\* matching note and a store entry of the DedupKey that differs from the
\* fingerprint, and it does so whenever it found them and the rewrite did not
\* throw; without a store entry, or without a matching note, no content is
\* rewritten.
C15_RewriteIffChanged ==
    \A r \in RunIds :
        \A i \in DOMAIN runs[r].log :
            LET e == runs[r].log[i]
                changed == e.existing # 0 /\ e.hasPrev /\ e.previousHash # e.hash
            IN  /\ e.rewrote => changed
                /\ (changed /\ e.outcome \notin {"dirFailed", "updateFailed"}) => e.rewrote
                /\ e.rewrote => e.after.updatedCount = e.before.updatedCount + 1
                /\ ~e.rewrote => e.after.updatedCount = e.before.updatedCount
                /\ ~e.hasPrev => ~e.rewrote
                /\ e.existing = 0 => ~e.rewrote

\* a content rewrite, an iteration on a matching note without a store entry,
\* and one with a store entry that differs but without a matching note
C15_Witness ==
    \E r, q, p \in RunIds :
        \E i \in DOMAIN runs[r].log, j \in DOMAIN runs[q].log, k \in DOMAIN runs[p].log :
            /\ runs[r].log[i].rewrote
            /\ runs[q].log[j].existing # 0 /\ ~runs[q].log[j].hasPrev
            /\ runs[p].log[k].existing = 0 /\ runs[p].log[k].hasPrev
            /\ runs[p].log[k].previousHash # runs[p].log[k].hash


\* C16: an iteration that rewrites the content of a note leaves every other
\* note, the note's path and every line of the note before the
\* "## Assignment Details" heading as they were; from the heading on the note
\* holds the details of the assignment.  Only the due-date pass of the same
\* iteration may change a line before the heading: the duedate line and the
\* "Due Date:" line.
C16_ContentUpdateFrame ==
    [][\A r \in RunIds :
          (/\ runs[r].pc = "process"
           /\ Len(runs'[r].log) = Len(runs[r].log) + 1
           /\ runs'[r].log[Len(runs'[r].log)].rewrote)
          => LET e == runs'[r].log[Len(runs'[r].log)]
                 a == runs[r].allAssignments[runs[r].ai]
                 old == vault.notes[e.existing].content
                 new == vault'.notes[e.existing].content
                 h == FirstLine(old, "heading")
             IN  /\ Len(vault'.notes) = Len(vault.notes)
                 /\ \A m \in DOMAIN vault.notes :
                       /\ vault'.notes[m].path = vault.notes[m].path
                       /\ m # e.existing => vault'.notes[m] = vault.notes[m]
                 /\ h # 0 /\ Len(new) = h + 6
                 /\ \A k \in 1..(h - 1) :
                       \/ new[k] = old[k]
                       \/ /\ e.dueUpdated
                          /\ old[k].k \in {"duedate", "duelabel"}
                          /\ new[k].k = old[k].k
                 /\ SubSeq(new, h, Len(new)) =
                       <<Heading, Line("points", a.points_possible), Blank,
                         Line("deschead", <<>>), Line("desc", a.description), Blank,
                         Line("link", a.html_url)>>]_vars

\* a note with template lines before the heading whose details were replaced
\* by those of an edited description, without a due-date rewrite
C16_Witness ==
    \E r \in RunIds :
        \E i \in DOMAIN runs[r].log :
            LET e == runs[r].log[i]
            IN  /\ e.rewrote /\ ~e.dueDiffered /\ e.outcome = "processed"
                /\ FirstLine(vault.notes[e.existing].content, "duedate") = 1
                /\ FirstLine(vault.notes[e.existing].content, "heading") = 5
                /\ vault.notes[e.existing].content[9].v = Desc2


\* the runs that have started and not ended
InProgress == {r \in RunIds : runs[r].pc \notin {"idle", "done"}}

\* C17 (as claimed): at most one run of createAssignmentNotes is in progress
\* at any time.
C17_OneRunAtATime == Cardinality(InProgress) <= 1


\* C18 (as claimed): the note created for an assignment is found by
\* findExistingAssignmentFile for that assignment, and no later run invokes
\* the creation again for an assignment (same course, same id, same name) whose
\* note an earlier run created.
C18_CreatedNoteIsLocated ==
    \A r \in RunIds :
        \A i \in DOMAIN runs[r].log :
            runs[r].log[i].outcome = "created"
            => LET a == runs[r].allAssignments[i]
               IN  /\ findExistingAssignmentFile(vault.notes, directoryPath(a.course),
                                                 cleanAssignmentName(a.name)) # 0
                   /\ \A q \in RunIds : \A j \in DOMAIN runs[q].log :
                         (/\ q > r
                          /\ runs[q].allAssignments[j].id = a.id
                          /\ runs[q].allAssignments[j].course = a.course
                          /\ runs[q].allAssignments[j].name = a.name)
                         => ~runs[q].log[j].createInvoked


\* no other assignment fetched by run r has the DedupKey of assignment i
KeyIsItsOwn(r, i) ==
    \A j \in DOMAIN runs[r].allAssignments :
        j # i => KeyOf(runs[r].allAssignments[j]) # KeyOf(runs[r].allAssignments[i])

\* run q follows run r, fetched the same assignments and met no failure, and
\* both have processed assignment i
Retried(r, q, i) ==
    /\ q = r + 1
    /\ runs[q].failures = 0
    /\ runs[q].allAssignments = runs[r].allAssignments
    /\ i \in DOMAIN runs[r].log /\ i \in DOMAIN runs[q].log

\* C19 (as claimed): an iteration that fails in the directory creation, the
\* note creation or the content rewrite does not touch the store entry, and
\* the next run selects the same action for the assignment: the creation
\* when no note was found, the content rewrite when the rewrite failed.
C19_FailedMutationRetried ==
    \A r \in RunIds : \A q \in RunIds : \A i \in DOMAIN runs[r].log :
        (/\ Retried(r, q, i) /\ KeyIsItsOwn(r, i)
         /\ runs[r].log[i].outcome \in {"dirFailed", "createFailed", "updateFailed"})
        => LET e1 == runs[r].log[i]
               e2 == runs[q].log[i]
           IN  /\ ~e1.stored
               /\ e1.existing = 0 => e2.createInvoked
               /\ e1.outcome = "updateFailed" => e2.rewrote

\* C20 (as claimed): once updateDueDate has succeeded for a note, the due
\* date read from the note is the formatted remote due date (the empty value
\* when there is none), so that the comparison of line 403 finds them equal
\* from then on.  Stated of the last processed assignment, before any later
\* run touches the vault.
C20_DueDateConverges ==
    \A r \in RunIds :
        LET n == Len(runs[r].log)
        IN  (/\ n > 0
             /\ \A q \in RunIds : q > r => runs[q].log = <<>>
             /\ runs[r].log[n].dueUpdated)
            => /\ runs[r].log[n].existing \in DOMAIN vault.notes
               /\ CurrentDueDate(vault.notes[runs[r].log[n].existing].content)
                      = runs[r].log[n].fdate

====
